---- MODULE Spec2Model ----
(***************************************************************************)
(* A model of pycryptoki/attributes.py: the transforms that convert Python *)
(* values to (pValue, ulValueLen) pairs and back, the KEY_TRANSFORMS       *)
(* registry, Attributes.get_c_struct and c_struct_to_python.               *)
(*                                                                         *)
(* The module is Python 2 code (long, iterkeys, 1L literals), so the       *)
(* Python 2 meaning of str (a byte string), dict (no iteration order       *)
(* guaranteed) and defaultdict (a lookup of a missing key stores the       *)
(* default under that key) is the meaning modelled here.                   *)
(*                                                                         *)
(* Python values are records [t, v]: t is the Python type name, v the      *)
(* payload (an integer, a BOOLEAN, a sequence of character codes for a     *)
(* str, a sequence of integers for a list, a function from kinds to values *)
(* for a dict).  Memory is a sequence of bytes; a pointer is a record      *)
(* [k, mem] naming the object it points to.  A read that runs past the end *)
(* of a buffer (c_char_p.value on a buffer without a zero byte) finds the  *)
(* bytes that happen to follow it, which each such read is given as a      *)
(* nondeterministically chosen value, beyond.                              *)
(*                                                                         *)
(* Left out: to_ck_date and the date kinds, get_byte_list_from_python_list *)
(* and the ret_type decorator (it only sets an attribute on the function). *)
(* The integers of the model are non-negative and below 2^31.              *)
(***************************************************************************)
EXTENDS Integers, Sequences, FiniteSets, TLC

VARIABLES
    KEY_TRANSFORMS, \* the registry: the keys the defaultdict holds -> transform name
    attrs,          \* the Attributes object under construction: [keys, val, new_transforms]
    op,             \* the operation that ran last
    ret_struct,     \* what the last get_c_struct returned: [raised, arr]
    log,            \* the kinds LOG.warning was called for during the last operation
    calls,          \* the transforms the last operation invoked: <<[key, fn, via]>>
    py_data,        \* what the last c_struct_to_python returned: [raised, keys, val]
    arg,            \* the input of the last direct transform call
    res,            \* its result
    res2            \* the result of the second call, where two are compared

vars == <<KEY_TRANSFORMS, attrs, op, ret_struct, log, calls, py_data,
          arg, res, res2>>

-----------------------------------------------------------------------------
(* Bounds of the model. *)

\* longest list / byte buffer drawn as an input of a direct transform call
MaxLen == 3
\* largest integer drawn as an input of to_byte_array
MaxInt == 70000
\* most entries a template holds
MaxEntries == 2

-----------------------------------------------------------------------------
(* Python values. *)

None == [t |-> "NoneType", v |-> <<>>]
PyInt(n) == [t |-> "int", v |-> n]
PyBool(b) == [t |-> "bool", v |-> b]
PyStr(s) == [t |-> "str", v |-> s]
PyList(l) == [t |-> "list", v |-> l]
PyDict(d) == [t |-> "dict", v |-> d]

\* isinstance(val, (int, long)) and isinstance(val, (int, bool)): bool is a
\* subclass of int, so both tests accept exactly ints, longs and bools.
IsIntegral(val) == val.t \in {"int", "bool"}

IntOf(val) == IF val.t = "bool" THEN (IF val.v THEN 1 ELSE 0) ELSE val.v

\* Python's ==: numbers compare by value (True == 1), the rest by type and content.
PyEq(a, b) ==
    IF IsIntegral(a) /\ IsIntegral(b) THEN IntOf(a) = IntOf(b)
    ELSE a.t = b.t /\ a.v = b.v

-----------------------------------------------------------------------------
(* Memory, pointers and transform results. *)

NULL == [k |-> "null", mem |-> <<>>]
BufferPtr(bytes) == [k |-> "mem", mem |-> bytes]
ArrayPtr(recs) == [k |-> "attrs", mem |-> recs]

\* a transform returned (p_value, ul_length)
Returned(p, n) == [raised |-> "", pValue |-> p, ulValueLen |-> n]
\* a transform raised
Raised(e) == [raised |-> e, pValue |-> NULL, ulValueLen |-> 0]

\* a transform called with reverse=True returned a Python value
Value(x) == [raised |-> "", value |-> x]

Zeros(n) == [i \in 1..n |-> 0]

Min(a, b) == IF a < b THEN a ELSE b

\* s[0:n] of Python: the first n elements, or all of s when it is shorter
Slice(s, n) == SubSeq(s, 1, Min(n, Len(s)))

\* c_char_p.value: the bytes from the pointer up to, not including, the first
\* zero byte.  heap is the pointed-to object followed by the memory after it.
RECURSIVE CString(_)
CString(heap) ==
    IF heap = <<>> \/ Head(heap) = 0 THEN <<>>
    ELSE <<Head(heap)>> \o CString(Tail(heap))

-----------------------------------------------------------------------------
(* to_long, to_bool *)

\* sizeof(c_ulong) on the LP64 platforms the library targets
SizeofULong == 8
\* sizeof(CK_BBOOL)
SizeofBBool == 1

\* the bytes of CK_ULONG(n), least significant first.  The integers of the
\* model are below 2^31, so bytes five and up are the sign extension.
ULongBytes(n) ==
    [i \in 1..SizeofULong |->
        IF i <= 4 THEN (n \div (256 ^ (i - 1))) % 256
        ELSE IF n < 0 THEN 255 ELSE 0]

\* the unsigned integer a run of bytes holds, least significant first
RECURSIVE LittleEndian(_)
LittleEndian(bytes) ==
    IF bytes = <<>> THEN 0 ELSE Head(bytes) + 256 * LittleEndian(Tail(bytes))

to_long(val) ==
    IF ~IsIntegral(val) THEN Raised("TypeError")
    ELSE Returned(BufferPtr(ULongBytes(IntOf(val))), SizeofULong)

\* reverse=True: long(cast(val.pValue, POINTER(c_ulong)).contents.value)
to_long_reverse(rec, beyond) ==
    Value(PyInt(LittleEndian(SubSeq(rec.pValue.mem \o beyond, 1, SizeofULong))))

to_bool(val) ==
    IF ~IsIntegral(val) THEN Raised("TypeError")
    ELSE Returned(BufferPtr(<<IF IntOf(val) # 0 THEN 1 ELSE 0>>), SizeofBBool)

\* reverse=True: bool(cast(val.pValue, POINTER(c_bool)).contents.value)
to_bool_reverse(rec, beyond) ==
    Value(PyBool((rec.pValue.mem \o beyond)[1] # 0))

-----------------------------------------------------------------------------
(* to_char_array *)

\* bytearray(val) of a list: every element must be in range(0, 256)
BytearrayOk(l) == \A i \in 1..Len(l) : l[i] \in 0..255

to_char_array(val) ==
    IF val.t \notin {"str", "list"} THEN Raised("TypeError")
    ELSE IF val.t = "str"
         \* create_string_buffer(val): the characters and a terminating zero
         THEN Returned(BufferPtr(val.v \o <<0>>), Len(val.v) + 1)
         \* bytearray(val) is no ctypes instance: pointer() raises TypeError
         ELSE IF BytearrayOk(val.v) THEN Raised("TypeError")
              ELSE Raised("ValueError")

\* reverse=True: str(cast(val.pValue, c_char_p).value[0:val.usValueLen])
to_char_array_reverse(rec, beyond) ==
    Value(PyStr(Slice(CString(rec.pValue.mem \o beyond), rec.usValueLen)))

-----------------------------------------------------------------------------
(* to_byte_array *)

\* the binary digits of n >= 0, most significant first ("{:b}".format(n))
RECURSIVE BinDigits(_)
BinDigits(n) == IF n < 2 THEN <<n>> ELSE BinDigits(n \div 2) \o <<n % 2>>

\* long(val).bit_length()
BitLength(n) == IF n = 0 THEN 0 ELSE Len(BinDigits(n))

\* FormatBinary without the zero fill ("{:b}".format(n))
FormatBinary_NoFill(n, width) == BinDigits(n)

\* "{:0<width>b}".format(n): the digits, zero-filled on the left up to width;
\* never shorter than the digits themselves
FormatBinary(n, width) ==
    LET d == BinDigits(n)
    IN  IF Len(d) >= width THEN d ELSE Zeros(width - Len(d)) \o d

\* [s[i:i + n] for i in range(0, len(s), n)]
RECURSIVE Chunks(_, _)
Chunks(s, n) ==
    IF s = <<>> THEN <<>>
    ELSE <<Slice(s, n)>> \o Chunks(SubSeq(s, Min(n, Len(s)) + 1, Len(s)), n)

\* int(x, 2) of a string of binary digits
RECURSIVE IntBase2(_)
IntBase2(x) ==
    IF x = <<>> THEN 0 ELSE 2 * IntBase2(SubSeq(x, 1, Len(x) - 1)) + x[Len(x)]

\* Character codes: '0'..'9' are 48..57, 'A'..'F' 65..70, 'a'..'f' 97..102.
HexDigit(c) ==
    IF c \in 48..57 THEN c - 48
    ELSE IF c \in 97..102 THEN c - 87
    ELSE IF c \in 65..70 THEN c - 55
    ELSE -1

IsSpace(c) == c \in {9, 10, 11, 12, 13, 32}

RECURSIVE LStrip(_)
LStrip(x) == IF x # <<>> /\ IsSpace(Head(x)) THEN LStrip(Tail(x)) ELSE x

RECURSIVE RStrip(_)
RStrip(x) ==
    IF x # <<>> /\ IsSpace(x[Len(x)]) THEN RStrip(SubSeq(x, 1, Len(x) - 1)) ELSE x

RECURSIVE HexValue(_)
HexValue(x) ==
    IF x = <<>> THEN 0
    ELSE 16 * HexValue(SubSeq(x, 1, Len(x) - 1)) + HexDigit(x[Len(x)])

\* int(x, 16) of a chunk of at most two characters: surrounding whitespace
\* is stripped, a sign is accepted, and what is left must be hex digits
\* (a "0x" prefix needs a digit after it, so it never fits).  [ok, v].
IntBase16(x) ==
    LET s == RStrip(LStrip(x))
        signed == s # <<>> /\ Head(s) \in {43, 45}
        digits == IF signed THEN Tail(s) ELSE s
        valid == digits # <<>> /\ \A i \in 1..Len(digits) : HexDigit(digits[i]) >= 0
    IN  IF ~valid THEN [ok |-> FALSE, v |-> 0]
        ELSE [ok |-> TRUE,
              v |-> IF signed /\ Head(s) = 45 THEN 0 - HexValue(digits)
                    ELSE HexValue(digits)]

\* (CK_BYTE * n)(*values): n bytes, the values first (each stored modulo
\* 256), zero after them
ByteArrayOf(n, values) ==
    [i \in 1..n |-> IF i <= Len(values) THEN values[i] % 256 ELSE 0]

to_byte_array(val) ==
    IF val.t = "list" THEN
        IF BytearrayOk(val.v)
        THEN Returned(BufferPtr(ByteArrayOf(Len(val.v), val.v)), Len(val.v))
        ELSE Raised("ValueError")
    ELSE IF IsIntegral(val) THEN
        LET n == IntOf(val)
            bits == BitLength(n)
            width == bits + (8 - (IF bits % 8 # 0 THEN bits % 8 ELSE 8))
            str_array == Chunks(FormatBinary(n, width), 8)
            bytes == [i \in 1..Len(str_array) |-> IntBase2(str_array[i])]
        IN  Returned(BufferPtr(ByteArrayOf(Len(str_array), bytes)), Len(str_array))
    ELSE IF val.t = "str" THEN
        LET hex_array == Chunks(val.v, 2)
            parsed == [i \in 1..Len(hex_array) |-> IntBase16(hex_array[i])]
        IN  IF \A i \in 1..Len(parsed) : parsed[i].ok
            \* the array is len(val) long, not len(hex_array)
            THEN Returned(BufferPtr(ByteArrayOf(Len(val.v),
                                     [i \in 1..Len(parsed) |-> parsed[i].v])),
                          Len(val.v))
            \* except ValueError: bytearray(val)
            ELSE Returned(BufferPtr(val.v), Len(val.v))
    ELSE Raised("TypeError")

\* reverse=True: cast(val.pValue, c_char_p).value[0:val.usValueLen]
to_byte_array_reverse(rec, beyond) ==
    Value(PyStr(Slice(CString(rec.pValue.mem \o beyond), rec.usValueLen)))

\* "".join("%02x" % b for b in byte_array)
HexChar(d) == IF d < 10 THEN 48 + d ELSE 87 + d

RECURSIVE convert_c_ubyte_array_to_string(_)
convert_c_ubyte_array_to_string(byte_array) ==
    IF byte_array = <<>> THEN <<>>
    ELSE <<HexChar(Head(byte_array) \div 16), HexChar(Head(byte_array) % 16)>>
         \o convert_c_ubyte_array_to_string(Tail(byte_array))

-----------------------------------------------------------------------------
(* Attribute kinds and the registry. *)

\* The kinds of the model, one or two for each transform of the table, and
\* CKA_EC_POINT, a kind of pycryptoki.defines the table does not list.
Kinds ==
    {"CKA_CLASS", "CKA_TOKEN", "CKA_LABEL", "CKA_VALUE",
     "CKA_UNWRAP_TEMPLATE", "CKA_DERIVE_TEMPLATE", "CKA_EC_POINT"}

\* KEY_TRANSFORMS.update({...}): the table's entries for the kinds of the model
STATIC_KEY_TRANSFORMS ==
    [k \in Kinds \ {"CKA_EC_POINT"} |->
        CASE k = "CKA_CLASS" -> "to_long"
          [] k = "CKA_TOKEN" -> "to_bool"
          [] k = "CKA_LABEL" -> "to_char_array"
          [] k = "CKA_VALUE" -> "to_byte_array"
          [] k = "CKA_UNWRAP_TEMPLATE" -> "to_sub_attributes"
          [] k = "CKA_DERIVE_TEMPLATE" -> "to_sub_attributes"]

\* defaultdict(lambda: to_byte_array).__getitem__: a key the dict does not
\* hold is stored with the default before it is returned.
DefaultdictGetitem(reg, key) ==
    IF key \in DOMAIN reg THEN reg
    ELSE [k \in DOMAIN reg \cup {key} |->
            IF k = key THEN "to_byte_array" ELSE reg[k]]

\* Attributes(**val): Python passes the items of val as keyword arguments,
\* and a keyword must be a str.  Attribute kinds are integers, so the call
\* succeeds only for a mapping without keys.
KeywordsAreStrings(d) == DOMAIN d = {}

\* Attributes(**val).get_c_struct(), then (pointer to the array, len(attrs)).
\* Where the constructor call succeeds the Attributes is empty and
\* get_c_struct returns the array of no records.
to_sub_attributes(val) ==
    IF val.t # "dict" THEN Raised("TypeError")
    ELSE IF ~KeywordsAreStrings(val.v) THEN Raised("TypeError")
    ELSE Returned(ArrayPtr(<<>>), 0)

\* The transform fn applied to val, reverse=False.
Encode(fn, val) ==
    CASE fn = "to_long" -> to_long(val)
      [] fn = "to_bool" -> to_bool(val)
      [] fn = "to_char_array" -> to_char_array(val)
      [] fn = "to_byte_array" -> to_byte_array(val)
      [] fn = "to_sub_attributes" -> to_sub_attributes(val)

CK_ATTRIBUTE(type, pValue, usValueLen) ==
    [type |-> type, pValue |-> pValue, usValueLen |-> usValueLen]

-----------------------------------------------------------------------------
(* Attributes.get_c_struct *)

\* The state of the loop of get_c_struct.
GetStart(reg) ==
    [reg |-> reg, arr |-> <<>>, log |-> <<>>, calls |-> <<>>, raised |-> ""]

\* value is None: blank_attr = CK_ATTRIBUTE(CK_ATTRIBUTE_TYPE(key), None, CK_ULONG(0))
BlankEntry(st, key) ==
    [st EXCEPT !.arr = Append(@, CK_ATTRIBUTE(key, NULL, 0))]

\* key in self.new_transforms: p_value, ul_length = self.new_transforms[key](value)
OverrideEntry(st, self, key) ==
    LET fn == self.new_transforms[key]
        r == Encode(fn, self.val[key])
        called == Append(st.calls, [key |-> key, fn |-> fn, via |-> "new_transforms"])
    IN  IF r.raised # "" THEN [st EXCEPT !.calls = called, !.raised = r.raised]
        ELSE [st EXCEPT !.calls = called,
                        !.arr = Append(@, CK_ATTRIBUTE(key, r.pValue, r.ulValueLen))]

\* else: warn if key not in KEY_TRANSFORMS, then
\* p_value, ul_length = KEY_TRANSFORMS[key](value)
RegistryEntry(st, self, key) ==
    LET warned == IF key \notin DOMAIN st.reg THEN Append(st.log, key) ELSE st.log
        reg == DefaultdictGetitem(st.reg, key)
        fn == reg[key]
        r == Encode(fn, self.val[key])
        called == Append(st.calls, [key |-> key, fn |-> fn, via |-> "KEY_TRANSFORMS"])
    IN  IF r.raised # ""
        THEN [st EXCEPT !.reg = reg, !.log = warned, !.calls = called,
                        !.raised = r.raised]
        ELSE [st EXCEPT !.reg = reg, !.log = warned, !.calls = called,
                        !.arr = Append(@, CK_ATTRIBUTE(key, r.pValue, r.ulValueLen))]

\* GetStep with the test for an override made before the test for None
GetStep_OverrideBeforeNone(st, self, key) ==
    IF st.raised # "" THEN st
    ELSE IF key \in DOMAIN self.new_transforms THEN OverrideEntry(st, self, key)
    ELSE IF self.val[key] = None THEN BlankEntry(st, key)
    ELSE RegistryEntry(st, self, key)

\* GetStep with KEY_TRANSFORMS consulted before new_transforms
GetStep_RegistryBeforeOverride(st, self, key) ==
    IF st.raised # "" THEN st
    ELSE IF self.val[key] = None THEN BlankEntry(st, key)
    ELSE IF key \in DOMAIN st.reg THEN RegistryEntry(st, self, key)
    ELSE IF key \in DOMAIN self.new_transforms THEN OverrideEntry(st, self, key)
    ELSE RegistryEntry(st, self, key)

\* One iteration of the loop: the entry under key of the template self.  An
\* exception leaves the loop, so after one nothing more is done.
GetStep(st, self, key) ==
    IF st.raised # "" THEN st
    ELSE IF self.val[key] = None THEN BlankEntry(st, key)
    ELSE IF key \in DOMAIN self.new_transforms THEN OverrideEntry(st, self, key)
    ELSE RegistryEntry(st, self, key)

\* for index, key in enumerate(self.iterkeys()), in the order iterkeys yields
RECURSIVE GetLoop(_, _, _)
GetLoop(st, self, order) ==
    IF order = <<>> THEN st
    ELSE GetLoop(GetStep(st, self, Head(order)), self, Tail(order))

get_c_struct(self, reg, order) == GetLoop(GetStart(reg), self, order)

-----------------------------------------------------------------------------
(* c_struct_to_python, Attributes.from_c_struct *)

\* a CK_ATTRIBUTE array object (len() is defined), as get_c_struct returns it
ArrayObject(recs) == [k |-> "array", mem |-> recs]

PutStart(reg) ==
    [reg |-> reg, keys |-> {}, val |-> <<>>, calls |-> <<>>, raised |-> ""]

RECURSIVE c_struct_to_python(_, _, _)
RECURSIVE PutLoop(_, _, _, _)

\* reverse=True: c_struct_to_python(cast(val.pValue, POINTER(CK_ATTRIBUTE)))
to_sub_attributes_reverse(rec, reg, beyond) ==
    LET r == c_struct_to_python(ArrayPtr(rec.pValue.mem), reg,
                                [i \in 1..Len(rec.pValue.mem) |-> beyond])
    IN  [raised |-> r.raised,
         value |-> IF r.raised # "" THEN None ELSE PyDict(r.val),
         reg |-> r.reg]

\* The transform fn applied to a record, reverse=True: [raised, value, reg].
Decode(fn, rec, reg, beyond) ==
    IF fn = "to_sub_attributes" THEN to_sub_attributes_reverse(rec, reg, beyond)
    ELSE LET r == CASE fn = "to_long" -> to_long_reverse(rec, beyond)
                    [] fn = "to_bool" -> to_bool_reverse(rec, beyond)
                    [] fn = "to_char_array" -> to_char_array_reverse(rec, beyond)
                    [] fn = "to_byte_array" -> to_byte_array_reverse(rec, beyond)
         IN  [raised |-> r.raised, value |-> r.value, reg |-> reg]

\* One iteration of the loop of c_struct_to_python.
PutStep(st, rec, beyond) ==
    LET obj_type == rec.type
        put(x) == [k \in st.keys \cup {obj_type} |->
                     IF k = obj_type THEN x ELSE st.val[k]]
    IN  IF st.raised # "" THEN st
        ELSE IF rec.pValue = NULL THEN
            [st EXCEPT !.keys = @ \cup {obj_type}, !.val = put(None)]
        ELSE
            LET reg == DefaultdictGetitem(st.reg, obj_type)
                fn == reg[obj_type]
                r == Decode(fn, rec, reg, beyond)
                called == Append(st.calls, [key |-> obj_type, fn |-> fn, via |-> "KEY_TRANSFORMS"])
            IN  IF r.raised # ""
                THEN [st EXCEPT !.reg = r.reg, !.calls = called, !.raised = r.raised]
                ELSE [st EXCEPT !.reg = r.reg, !.calls = called,
                                !.keys = @ \cup {obj_type}, !.val = put(r.value)]

\* for i in range(0, len(c_struct)), from record i on
PutLoop(st, recs, beyonds, i) ==
    IF i > Len(recs) THEN st
    ELSE PutLoop(PutStep(st, recs[i], beyonds[i]), recs, beyonds, i + 1)

\* beyonds[i] is the memory that follows the buffer of record i.
\* len(c_struct) raises TypeError for a ctypes pointer: only an array has a
\* length.
c_struct_to_python(c_struct, reg, beyonds) ==
    IF c_struct.k # "array" THEN [PutStart(reg) EXCEPT !.raised = "TypeError"]
    ELSE PutLoop(PutStart(reg), c_struct.mem, beyonds, 1)

from_c_struct(c_struct, reg, beyonds) == c_struct_to_python(c_struct, reg, beyonds)

-----------------------------------------------------------------------------
(* The inputs of the model. *)

\* 'mykey', 'a\x00b' and '0a' as character codes
Str_mykey == <<109, 121, 107, 101, 121>>
Str_a_nul_b == <<97, 0, 98>>
Str_0a == <<48, 97>>

\* The values a template may hold under each kind: None, values of the
\* kind's domain and, for some kinds, a value of a wrong type.
KindValues(k) ==
    CASE k = "CKA_CLASS" -> {None, PyInt(3)}
      [] k = "CKA_TOKEN" -> {None, PyBool(TRUE), PyBool(FALSE)}
      [] k = "CKA_LABEL" -> {None, PyStr(Str_mykey), PyStr(Str_a_nul_b)}
      [] k = "CKA_VALUE" -> {PyList(<<1, 0, 2>>), PyStr(Str_0a)}
      [] k = "CKA_UNWRAP_TEMPLATE" ->
            {PyDict(<<>>), PyDict([x \in {"CKA_CLASS"} |-> PyInt(3)])}
      [] k = "CKA_DERIVE_TEMPLATE" ->
            {PyDict([x \in {"CKA_TOKEN"} |-> PyBool(TRUE)])}
      [] k = "CKA_EC_POINT" -> {None, PyList(<<10>>), PyInt(256)}

\* The new_transforms mappings a caller passes: none, and overrides of a
\* registered and of an unregistered kind by transforms of this module.
NewTransforms ==
    {<<>>,
     [x \in {"CKA_LABEL"} |-> "to_byte_array"],
     [x \in {"CKA_CLASS", "CKA_EC_POINT"} |-> "to_bool"]}

\* The memory that follows a buffer, as far as a read can run into it:
\* zero bytes, or a non-zero byte and then zero bytes.
Beyond == {Zeros(SizeofULong), <<65>> \o Zeros(SizeofULong - 1)}

\* The orders iterkeys() of a Python 2 dict may yield the keys in: the
\* language fixes none.
Orders(keys) ==
    {o \in [1..Len(keys) -> {keys[i] : i \in 1..Len(keys)}] :
        \A i, j \in 1..Len(keys) : i # j => o[i] # o[j]}

ByteAlphabet == {0, 1, 2, 10, 65, 255}

RECURSIVE SeqsUpTo(_, _)
SeqsUpTo(S, n) ==
    IF n = 0 THEN {<<>>}
    ELSE LET shorter == SeqsUpTo(S, n - 1)
         IN  shorter \cup {Append(q, x) : q \in shorter, x \in S}

ByteLists == SeqsUpTo(ByteAlphabet, MaxLen)

-----------------------------------------------------------------------------
(* The state machine of templates: construct, fill, assemble, disassemble. *)

NoStruct == [raised |-> "", arr |-> <<>>]
NoData == [raised |-> "", keys |-> {}, val |-> <<>>]
NoResult == Raised("")

\* Attributes.__init__
AttributesInit(new_transforms) ==
    [keys |-> <<>>, val |-> <<>>, new_transforms |-> new_transforms]

Init ==
    /\ KEY_TRANSFORMS = STATIC_KEY_TRANSFORMS
    /\ attrs = AttributesInit(<<>>)
    /\ op = "import"
    /\ ret_struct = NoStruct
    /\ log = <<>>
    /\ calls = <<>>
    /\ py_data = NoData
    /\ arg = None
    /\ res = NoResult
    /\ res2 = NoResult

\* attrs = Attributes(new_transforms=nt)
NewAttributes ==
    \E nt \in NewTransforms :
        /\ attrs' = AttributesInit(nt)
        /\ op' = "__init__"
        /\ ret_struct' = NoStruct
        /\ log' = <<>>
        /\ calls' = <<>>
        /\ py_data' = NoData
        /\ UNCHANGED <<KEY_TRANSFORMS, arg, res, res2>>

HasKey(self, k) == \E i \in 1..Len(self.keys) : self.keys[i] = k

\* attrs[k] = v (dict.__setitem__) for a key the template does not hold yet,
\* while the caller fills the template
SetItem ==
    \E k \in Kinds :
      \E v \in KindValues(k) :
        /\ op \in {"import", "__init__", "__setitem__"}
        /\ ~HasKey(attrs, k)
        /\ Len(attrs.keys) < MaxEntries
        /\ attrs' = [attrs EXCEPT
                        !.keys = Append(@, k),
                        !.val = [x \in DOMAIN @ \cup {k} |-> IF x = k THEN v ELSE @[x]]]
        /\ op' = "__setitem__"
        /\ ret_struct' = NoStruct
        /\ log' = <<>>
        /\ calls' = <<>>
        /\ py_data' = NoData
        /\ UNCHANGED <<KEY_TRANSFORMS, arg, res, res2>>

\* ret_struct = attrs.get_c_struct()
GetCStruct ==
    \E order \in Orders(attrs.keys) :
        LET st == get_c_struct(attrs, KEY_TRANSFORMS, order)
        IN  /\ KEY_TRANSFORMS' = st.reg
            /\ ret_struct' = [raised |-> st.raised,
                              arr |-> IF st.raised # "" THEN <<>> ELSE st.arr]
            /\ log' = st.log
            /\ calls' = st.calls
            /\ op' = "get_c_struct"
            /\ py_data' = NoData
            /\ UNCHANGED <<attrs, arg, res, res2>>

Disassemble(st) ==
    /\ KEY_TRANSFORMS' = st.reg
    /\ py_data' = IF st.raised # "" THEN [NoData EXCEPT !.raised = st.raised]
                  ELSE [raised |-> "", keys |-> st.keys, val |-> st.val]
    /\ log' = <<>>
    /\ calls' = st.calls
    /\ op' = "c_struct_to_python"
    /\ UNCHANGED <<attrs, ret_struct, arg, res, res2>>

\* py_data = c_struct_to_python(ret_struct)
CStructToPython ==
    /\ op \in {"get_c_struct", "c_struct_to_python"}
    /\ ret_struct.raised = ""
    /\ \E beyonds \in [1..Len(ret_struct.arr) -> Beyond] :
        Disassemble(c_struct_to_python(ArrayObject(ret_struct.arr), KEY_TRANSFORMS, beyonds))

\* py_data = Attributes.from_c_struct(ret_struct)
FromCStruct ==
    /\ op \in {"get_c_struct", "c_struct_to_python"}
    /\ ret_struct.raised = ""
    /\ \E beyonds \in [1..Len(ret_struct.arr) -> Beyond] :
        Disassemble(from_c_struct(ArrayObject(ret_struct.arr), KEY_TRANSFORMS, beyonds))

Next == NewAttributes \/ SetItem \/ GetCStruct \/ CStructToPython \/ FromCStruct

Spec == Init /\ [][Next]_vars

-----------------------------------------------------------------------------
(* Direct calls of the transforms, on inputs drawn from bounded sets. *)

\* to_byte_array(L) and to_byte_array(h), h the hex spelling of L
EncodeListAndHex ==
    /\ op = "import"
    /\ \E L \in ByteLists :
        /\ arg' = PyList(L)
        /\ res' = to_byte_array(PyList(L))
        /\ res2' = to_byte_array(PyStr(convert_c_ubyte_array_to_string(L)))
        /\ op' = "to_byte_array(list), to_byte_array(hex)"
        /\ UNCHANGED <<KEY_TRANSFORMS, attrs, ret_struct, log, calls, py_data>>

\* to_byte_array(n)
EncodeInt ==
    /\ op = "import"
    /\ \E n \in 0..MaxInt :
        /\ arg' = PyInt(n)
        /\ res' = to_byte_array(PyInt(n))
        /\ res2' = NoResult
        /\ op' = "to_byte_array(int)"
        /\ UNCHANGED <<KEY_TRANSFORMS, attrs, ret_struct, log, calls, py_data>>

\* to_byte_array(rec, reverse=True) and to_char_array(rec, reverse=True) of
\* a record whose pValue points to the buffer b and whose length is n <= |b|
DecodeRecord ==
    /\ op = "import"
    /\ \E b \in ByteLists :
      \E n \in 0..Len(b) :
        \E beyond \in Beyond :
          LET rec == CK_ATTRIBUTE("CKA_VALUE", BufferPtr(b), n)
          IN  /\ arg' = rec
              /\ res' = to_byte_array_reverse(rec, beyond)
              /\ res2' = to_char_array_reverse(rec, beyond)
              /\ op' = "reverse"
              /\ UNCHANGED <<KEY_TRANSFORMS, attrs, ret_struct, log, calls, py_data>>

\* to_byte_array(L), then to_byte_array(rec, reverse=True) of the record made
\* of its result
EncodeThenDecode ==
    /\ op = "import"
    /\ \E L \in ByteLists :
      \E beyond \in Beyond :
        LET e == to_byte_array(PyList(L))
            rec == CK_ATTRIBUTE("CKA_VALUE", e.pValue, e.ulValueLen)
            d == to_byte_array_reverse(rec, beyond)
        IN  /\ arg' = PyList(L)
            /\ res' = e
            /\ res2' = d
            /\ op' = "to_byte_array(list), reverse"
            /\ UNCHANGED <<KEY_TRANSFORMS, attrs, ret_struct, log, calls, py_data>>

\* Each behaviour is one call on a freshly imported module: the transforms
\* keep no state, so a call after another adds nothing.
NextTransforms == EncodeListAndHex \/ EncodeInt \/ DecodeRecord \/ EncodeThenDecode

SpecTransforms == Init /\ [][NextTransforms]_vars

-----------------------------------------------------------------------------
(* Properties of the direct transform calls, under SpecTransforms. *)

\* C6: for every list L of integers 0..255 and the hex string h spelling L
\* two digits per byte, to_byte_array(h) and to_byte_array(L) yield the same
\* bytes and the same length.
C6_HexAndListAgree ==
    op = "to_byte_array(list), to_byte_array(hex)" =>
        /\ res.raised = "" /\ res2.raised = ""
        /\ res2.pValue.mem = res.pValue.mem
        /\ res2.ulValueLen = res.ulValueLen

\* bit_length(n): the least b with n < 2^b
C7_BitLength(n) == CHOOSE b \in 0..31 : n < 2 ^ b /\ (b = 0 \/ n >= 2 ^ (b - 1))

\* padded_width = bit_length + (8 - (bit_length % 8 or 8))
C7_PaddedWidth(n) ==
    LET b == C7_BitLength(n)
    IN  b + (8 - (IF b % 8 = 0 THEN 8 ELSE b % 8))

\* the number a run of bytes holds, most significant first
RECURSIVE C7_BigEndian(_)
C7_BigEndian(bytes) ==
    IF bytes = <<>> THEN 0
    ELSE 256 * C7_BigEndian(SubSeq(bytes, 1, Len(bytes) - 1)) + bytes[Len(bytes)]

C7_Encodes(n, r) ==
    /\ r.raised = ""
    /\ r.ulValueLen = C7_PaddedWidth(n) \div 8
    /\ Len(r.pValue.mem) = C7_PaddedWidth(n) \div 8
    /\ C7_BigEndian(r.pValue.mem) = n

\* C7 as stated: for every non-negative integer n, to_byte_array(n) yields
\* exactly padded_width/8 bytes, the big-endian representation of n.
C7_IntWidth ==
    op = "to_byte_array(int)" => C7_Encodes(arg.v, res)

\* C7 as amended: for every positive integer n, to_byte_array(n) yields
\* exactly padded_width/8 bytes, the big-endian representation of n (255
\* gives 1 byte, 256 the 2 bytes 0x01 0x00); to_byte_array(0) yields the
\* single byte 0x00, one more than padded_width/8 = 0.
C7_IntWidthPositive ==
    op = "to_byte_array(int)" =>
        /\ arg.v >= 1 => C7_Encodes(arg.v, res)
        /\ arg.v = 0 => res = Returned(BufferPtr(<<0>>), 1)
        /\ arg.v = 255 => res = Returned(BufferPtr(<<255>>), 1)
        /\ arg.v = 256 => res = Returned(BufferPtr(<<1, 0>>), 2)

\* to_byte_array(256) has run and returned two bytes
C7_Witness ==
    op = "to_byte_array(int)" /\ arg.v = 256 /\ res.ulValueLen = 2

\* C10: to_byte_array and to_char_array with reverse=True return the first
\* n bytes of the buffer b of a record of length n <= |b|, zero bytes
\* included; so decoding to_byte_array(L) returns the bytes of L.
C10_DecodeReturnsLengthBytes ==
    /\ op = "reverse" =>
        /\ res.raised = "" /\ res2.raised = ""
        /\ res.value.v = SubSeq(arg.pValue.mem, 1, arg.usValueLen)
        /\ res2.value.v = SubSeq(arg.pValue.mem, 1, arg.usValueLen)
    /\ op = "to_byte_array(list), reverse" =>
        /\ res2.raised = ""
        /\ res2.value.v = arg.v

-----------------------------------------------------------------------------
(* Properties of templates, under Spec. *)

KeySet(self) == {self.keys[i] : i \in 1..Len(self.keys)}

\* the transform the documentation promises for an entry: the override if
\* there is one, else the table's, else the default
PromisedTransform(self, k) ==
    IF k \in DOMAIN self.new_transforms THEN self.new_transforms[k]
    ELSE IF k \in DOMAIN STATIC_KEY_TRANSFORMS THEN STATIC_KEY_TRANSFORMS[k]
    ELSE "to_byte_array"

\* every entry of the template holds None or a value its transform accepts
AllValuesAccepted(self) ==
    \A k \in KeySet(self) :
        self.val[k] = None \/ Encode(PromisedTransform(self, k), self.val[k]).raised = ""

\* the records of the array for kind k
RecordsOf(arr, k) == {i \in 1..Len(arr) : arr[i].type = k}

CalledFor(k) == {i \in 1..Len(calls) : calls[i].key = k}

Warned(k) == \E i \in 1..Len(log) : log[i] = k

\* C1: after any earlier get_c_struct and c_struct_to_python calls, every
\* get_c_struct call on a template holding a non-None value under a kind that
\* the static table does not list and new_transforms does not override
\* completes without raising, encodes the value with to_byte_array and logs a
\* warning during that call.
C1_FallbackWarnsEveryCall ==
    (op = "get_c_struct" /\ AllValuesAccepted(attrs)) =>
        \A k \in KeySet(attrs) :
            (/\ attrs.val[k] # None
             /\ k \notin DOMAIN STATIC_KEY_TRANSFORMS
             /\ k \notin DOMAIN attrs.new_transforms) =>
                /\ ret_struct.raised = ""
                /\ \E i \in RecordsOf(ret_struct.arr, k) :
                     LET e == to_byte_array(attrs.val[k])
                     IN  /\ ret_struct.arr[i].pValue = e.pValue
                         /\ ret_struct.arr[i].usValueLen = e.ulValueLen
                /\ \E i \in CalledFor(k) : calls[i].fn = "to_byte_array"
                /\ Warned(k)

\* C2: the set of kinds registered in KEY_TRANSFORMS and the transform bound
\* to each are the same after every sequence of get_c_struct and
\* c_struct_to_python calls as after module initialization.
C2_RegistryReadOnly ==
    KEY_TRANSFORMS = STATIC_KEY_TRANSFORMS

\* C3: for every entry whose value is None and whatever its kind
\* (registered, unregistered or overridden), get_c_struct calls no transform
\* and logs no warning for the entry, and the array it returns holds for it
\* exactly one record, with the entry's kind, a null pValue and length 0.
C3_NoneEntryIsBlank ==
    op = "get_c_struct" =>
        \A k \in KeySet(attrs) :
            attrs.val[k] = None =>
                /\ CalledFor(k) = {}
                /\ ~Warned(k)
                /\ ret_struct.raised = "" =>
                    /\ Cardinality(RecordsOf(ret_struct.arr, k)) = 1
                    /\ \A i \in RecordsOf(ret_struct.arr, k) :
                         ret_struct.arr[i] = CK_ATTRIBUTE(k, NULL, 0)

\* get_c_struct has returned an array for a template that holds None under
\* the unregistered kind, which new_transforms overrides, beside an entry
\* that is not None
C3_Witness ==
    /\ op = "get_c_struct"
    /\ ret_struct.raised = ""
    /\ Len(ret_struct.arr) = 2
    /\ "CKA_EC_POINT" \in KeySet(attrs)
    /\ attrs.val["CKA_EC_POINT"] = None
    /\ "CKA_EC_POINT" \in DOMAIN attrs.new_transforms
    /\ \E k \in KeySet(attrs) : attrs.val[k] # None

\* the length the claim gives a record of an unsigned-long, boolean or text
\* kind
C4_Length(k, value) ==
    CASE k = "CKA_CLASS" -> SizeofULong
      [] k = "CKA_TOKEN" -> 1
      [] k = "CKA_LABEL" -> Len(value.v)

\* unsigned-long, boolean and text kinds, each with a value of its domain
C4_ScalarTemplate(self) ==
    /\ self.new_transforms = <<>>
    /\ self.keys # <<>>
    /\ \A k \in KeySet(self) :
        \/ k = "CKA_CLASS" /\ self.val[k].t = "int"
        \/ k = "CKA_TOKEN" /\ self.val[k].t = "bool"
        \/ k = "CKA_LABEL" /\ self.val[k].t = "str"

\* C4: for a template of unsigned-long, boolean and text kinds with non-None
\* values, get_c_struct yields one record per entry, in insertion order, each
\* with the entry's kind, a non-null pointer and length sizeof(unsigned
\* long), 1, or the number of characters of the string.
C4_RecordsInOrderWithLengths ==
    (op = "get_c_struct" /\ C4_ScalarTemplate(attrs)) =>
        /\ ret_struct.raised = ""
        /\ Len(ret_struct.arr) = Len(attrs.keys)
        /\ \A i \in 1..Len(ret_struct.arr) :
            /\ ret_struct.arr[i].type = attrs.keys[i]
            /\ ret_struct.arr[i].pValue # NULL
            /\ ret_struct.arr[i].usValueLen
                  = C4_Length(attrs.keys[i], attrs.val[attrs.keys[i]])

\* per kind: None, an integer (unsigned-long kinds), a boolean (boolean
\* kinds) or a string (text kinds); no overrides
C5_ScalarOrNoneTemplate(self) ==
    /\ self.new_transforms = <<>>
    /\ \A k \in KeySet(self) :
        \/ self.val[k] = None
        \/ k = "CKA_CLASS" /\ self.val[k].t = "int"
        \/ k = "CKA_TOKEN" /\ self.val[k].t = "bool"
        \/ k = "CKA_LABEL" /\ self.val[k].t = "str"

\* C5: for such a template T, c_struct_to_python(T.get_c_struct()) returns a
\* mapping with exactly the keys of T and under each key a value equal to
\* the one in T.
C5_TemplateRoundTrip ==
    (op = "c_struct_to_python" /\ C5_ScalarOrNoneTemplate(attrs)) =>
        /\ py_data.raised = ""
        /\ py_data.keys = KeySet(attrs)
        /\ \A k \in KeySet(attrs) : PyEq(py_data.val[k], attrs.val[k])

\* the template holds a mapping under one of the two template-valued kinds,
\* and nothing else
C8_CompositeTemplate(self) ==
    /\ Len(self.keys) = 1
    /\ self.keys[1] \in {"CKA_UNWRAP_TEMPLATE", "CKA_DERIVE_TEMPLATE"}
    /\ self.val[self.keys[1]].t = "dict"

\* C8: a template holding a mapping M under CKA_UNWRAP_TEMPLATE (or
\* CKA_DERIVE_TEMPLATE) assembles without error into a record for that kind,
\* and decoding the record returns a mapping equal to M.
C8_CompositeRoundTrip ==
    C8_CompositeTemplate(attrs) =>
        /\ op = "get_c_struct" =>
            /\ ret_struct.raised = ""
            /\ Len(ret_struct.arr) = 1
            /\ ret_struct.arr[1].type = attrs.keys[1]
        /\ op = "c_struct_to_python" =>
            /\ py_data.raised = ""
            /\ py_data.keys = KeySet(attrs)
            /\ PyEq(py_data.val[attrs.keys[1]], attrs.val[attrs.keys[1]])

\* C9: in get_c_struct, for every entry with a non-None value whose kind has
\* an entry in new_transforms, whether or not KEY_TRANSFORMS registers the
\* kind: the registry transform is not called for it, no warning is logged
\* for it, the override is the one transform called for it, and the record
\* holds exactly the pointer and length the override returns for the value.
\* In c_struct_to_python / from_c_struct every record is decoded by the
\* transform KEY_TRANSFORMS holds (or defaults to) for its kind, never by an
\* override.
C9_OverridePrecedence ==
    /\ op = "get_c_struct" =>
        \A k \in KeySet(attrs) :
            (attrs.val[k] # None /\ k \in DOMAIN attrs.new_transforms) =>
                /\ \A i \in CalledFor(k) :
                     /\ calls[i].via = "new_transforms"
                     /\ calls[i].fn = attrs.new_transforms[k]
                /\ ~Warned(k)
                /\ ret_struct.raised = "" =>
                    /\ Cardinality(CalledFor(k)) = 1
                    /\ Cardinality(RecordsOf(ret_struct.arr, k)) = 1
                    /\ \A i \in RecordsOf(ret_struct.arr, k) :
                         LET e == Encode(attrs.new_transforms[k], attrs.val[k])
                         IN  ret_struct.arr[i] = CK_ATTRIBUTE(k, e.pValue, e.ulValueLen)
    /\ op = "c_struct_to_python" =>
        /\ \A i \in 1..Len(calls) :
            /\ calls[i].via = "KEY_TRANSFORMS"
            /\ calls[i].fn = IF calls[i].key \in DOMAIN STATIC_KEY_TRANSFORMS
                             THEN STATIC_KEY_TRANSFORMS[calls[i].key]
                             ELSE "to_byte_array"
        /\ py_data.raised = "" =>
            \A i \in 1..Len(ret_struct.arr) :
                ret_struct.arr[i].pValue # NULL => CalledFor(ret_struct.arr[i].type) # {}

\* a template that overrides a registered kind (CKA_CLASS) and the
\* unregistered one, with values under both, has been assembled and then
\* disassembled
C9_Witness ==
    /\ op = "c_struct_to_python"
    /\ py_data.raised = ""
    /\ KeySet(attrs) = {"CKA_CLASS", "CKA_EC_POINT"}
    /\ DOMAIN attrs.new_transforms = {"CKA_CLASS", "CKA_EC_POINT"}
    /\ attrs.val["CKA_CLASS"] = PyInt(3)
    /\ attrs.val["CKA_EC_POINT"] = PyInt(256)
    /\ Len(calls) = 2

====
